---- MODULE Spec2Model ----
(***************************************************************************)
(* Model of the channel REPL client of manager-interface (src/src/repl.rs, *)
(* src/src/main.rs, src/src/protocol.rs).                                  *)
(*                                                                         *)
(* Three tasks run concurrently: the input loop of run_repl, the           *)
(* connection handler handle_connection spawned by ChannelRepl::new, and   *)
(* the message display task spawned by run_repl.  They communicate through *)
(* two bounded mpsc queues (commands, messages) and a shutdown channel.    *)
(* The server is the environment: it may put any frame on the connection.  *)
(***************************************************************************)
EXTENDS Integers, Sequences, FiniteSets, TLC

\* ---------------------------------------------------------------- bounds
MaxInputs == 2
MaxFrames == 3
QueueCap == 2
SmallCap == 1

\* ------------------------------------------------------------- constants
ShutdownCap == 1

\* ------------------------------------------------------------- protocol
ChannelIds == {"c1", "c2"}
NoChannel == "-"

\* FrontendCommand (protocol.rs): the description is "" for unit variants.
Cmd(kind, description) == [kind |-> kind, description |-> description]
Disconnect == Cmd("Disconnect", "")
FrontendCommand ==
    { Cmd(k, "") : k \in {"StartActor", "StopActor", "BuildActor", "GetStatus", "Disconnect"} }
      \cup { Cmd("ChangeRequest", "x") }
NoCmd == Cmd("-", "")

\* serde_json::to_vec(&command): a unit variant is a JSON string, a struct
\* variant an object keyed by the variant name.
EncodeCommand(c) ==
    IF c.kind = "ChangeRequest"
    THEN "{\"ChangeRequest\":{\"description\":\"" \o c.description \o "\"}}"
    ELSE "\"" \o c.kind \o "\""

\* serde_json::from_slice::<FrontendCommand>, the decoding the receiving end
\* applies to a SendOnChannel payload (the Deserialize derive of protocol.rs).
DecodeCommand(bytes) ==
    CASE bytes = "\"StartActor\"" -> Cmd("StartActor", "")
      [] bytes = "\"StopActor\"" -> Cmd("StopActor", "")
      [] bytes = "\"BuildActor\"" -> Cmd("BuildActor", "")
      [] bytes = "\"GetStatus\"" -> Cmd("GetStatus", "")
      [] bytes = "\"Disconnect\"" -> Disconnect
      [] bytes = "{\"ChangeRequest\":{\"description\":\"x\"}}" -> Cmd("ChangeRequest", "x")
      [] OTHER -> NoCmd

\* FrontendMessage (protocol.rs), as far as the session and the display
\* task look at it: the variant and, for BuildEvent, the event type.
Msg(kind, event_type) == [kind |-> kind, event_type |-> event_type]
NoMsg == Msg("-", "-")
StatusPayload == "{\"Status\":{\"child_running\":true,\"active_operations\":[]}}"
BuildLogPayload == "{\"BuildEvent\":{\"event_type\":\"Log\"}}"
BuildCompletePayload == "{\"BuildEvent\":{\"event_type\":\"BuildComplete\"}}"
MalformedPayload == "not a frontend message"
\* The payloads the server is taken to send.
Payloads == {StatusPayload, BuildLogPayload, MalformedPayload}

\* serde_json::from_slice::<FrontendMessage>(&message): [ok, msg]
DecodeMessage(bytes) ==
    CASE bytes = StatusPayload -> [ok |-> TRUE, msg |-> Msg("Status", "-")]
      [] bytes = BuildLogPayload -> [ok |-> TRUE, msg |-> Msg("BuildEvent", "Log")]
      [] bytes = BuildCompletePayload -> [ok |-> TRUE, msg |-> Msg("BuildEvent", "BuildComplete")]
      [] OTHER -> [ok |-> FALSE, msg |-> NoMsg]

\* ManagementResponse variants (protocol.rs)
ManagementResponse ==
    {"StoreCreated", "ActorStarted", "RequestedMessage", "ChannelOpened",
     "MessageSent", "ChannelMessage", "ChannelClosed", "Error"}
OtherVariants == {"StoreCreated", "ActorStarted", "RequestedMessage", "MessageSent"}

\* What framed.next() yields: a frame, a frame error, end of stream, or
\* nothing yet.  A frame body is the JSON of a response; variant "Unknown"
\* stands for bytes that are no ManagementResponse.
Item(kind, variant, channel_id, message) ==
    [kind |-> kind, variant |-> variant, channel_id |-> channel_id, message |-> message]
NoItem == Item("None", "", "", "")
IoError == Item("IoError", "", "", "")
Eof == Item("Eof", "", "", "")
Frame(variant, channel_id, message) == Item("Frame", variant, channel_id, message)
RejectMessage == "actor not found"
Frames ==
    { Frame("Unknown", "", "") }
      \cup { Frame("ChannelOpened", c, "") : c \in ChannelIds }
      \cup { Frame("Error", "", RejectMessage) }
      \cup { Frame("ChannelMessage", c, p) : c \in ChannelIds, p \in Payloads }
      \cup { Frame("ChannelClosed", c, "") : c \in ChannelIds }
      \cup { Frame(v, "", "") : v \in OtherVariants }
StreamItems == Frames \cup {IoError, Eof}

\* serde_json::from_slice::<ManagementResponse>(&bytes)
ParseResponse(item) == item.variant \in ManagementResponse

\* ManagementCommand frames the session writes
Out(type, channel_id, message) ==
    [type |-> type, channel_id |-> channel_id, message |-> message]
InitialMessage == "{\"client_type\":\"frontend\"}"
OpenChannel == Out("OpenChannel", "", InitialMessage)
SendOnChannel(cid, c) == Out("SendOnChannel", cid, EncodeCommand(c))
CloseChannel(cid) == Out("CloseChannel", cid, "")

\* droppedAt: how many messages had been queued when the session first
\* dropped a ChannelMessage of its channel for its payload; NotDropped before.
NotDropped == 0 - 1
\* ignoredOther: the event loop has taken a frame that is no ChannelMessage
\* and no ChannelClosed, and has gone on.

VARIABLES
    cap, bootPc, bootArgs, bootOut, bootIn, bootReads, bootError,
    replPc, replResult, newResult, inputs, pendingCmd, verbose, openAtDisconnect,
    sendFailed,
    sessPc, sessResult, sessError, exitReason, exitItem, chanId, pendingMsg,
    dispPc, rendered, consumed,
    cmdQ, msgQ, shutQ, cmdRxAlive, msgRxAlive,
    netIn, framesSent, serverDone, wireOut,
    enqueued, arrived, placed, pendingCid, openedId, droppedAt,
    ignoredOther, procExited

mainVars == <<bootPc, bootArgs, bootOut, bootIn, bootReads, bootError>>
replVars == <<replPc, replResult, newResult, inputs, pendingCmd, verbose,
             openAtDisconnect, sendFailed>>
sessVars == <<sessPc, sessResult, sessError, exitReason, exitItem, chanId, pendingMsg>>
dispVars == <<dispPc, rendered, consumed>>
queueVars == <<cmdQ, msgQ, shutQ, cmdRxAlive, msgRxAlive>>
netVars == <<netIn, framesSent, serverDone, wireOut>>
ghostVars == <<enqueued, arrived, placed, pendingCid, openedId, droppedAt, ignoredOther,
               procExited>>
vars == <<cap, mainVars, replVars, sessVars, dispVars, queueVars, netVars, ghostVars>>

\* run_repl has not started yet: no queue, no task, nothing on the wire.
ReplInit ==
    /\ replPc = "new" /\ replResult = "-" /\ newResult = "-"
    /\ inputs = 0 /\ pendingCmd = NoCmd /\ verbose \in BOOLEAN
    /\ openAtDisconnect = FALSE /\ sendFailed = FALSE
    /\ sessPc = "unspawned" /\ sessResult = "-" /\ sessError = "" /\ exitReason = "-"
    /\ chanId = NoChannel /\ pendingMsg = NoMsg
    /\ dispPc = "unspawned" /\ rendered = <<>> /\ consumed = <<>>
    /\ cmdQ = <<>> /\ msgQ = <<>> /\ shutQ = 0
    /\ cmdRxAlive = FALSE /\ msgRxAlive = FALSE
    /\ netIn = NoItem /\ framesSent = 0 /\ serverDone = FALSE /\ wireOut = <<>>
    /\ enqueued = <<>> /\ arrived = <<>> /\ placed = <<>>
    /\ exitItem = NoItem /\ procExited = FALSE
    /\ pendingCid = NoChannel /\ openedId = NoChannel /\ droppedAt = NotDropped
    /\ ignoredOther = FALSE

\* The command line of main (main.rs 15-33) and the environment variable
\* start_manager_actor reads (main.rs 133-134): [flag or option given?]
Args == [new_store : BOOLEAN, store_id : BOOLEAN, build_store_id : BOOLEAN,
         api_key : BOOLEAN]

\* main has reached the call of run_repl (main.rs 241); its own connection
\* is not followed any further.
BootFinished ==
    /\ bootPc = "repl"
    /\ bootArgs = [new_store |-> FALSE, store_id |-> TRUE, build_store_id |-> TRUE,
                   api_key |-> TRUE]
    /\ bootOut = <<>> /\ bootIn = <<>> /\ bootReads = 0 /\ bootError = ""

\* run_repl as main calls it, both queues with their capacity (repl.rs 22-23)
Init == ReplInit /\ BootFinished /\ cap = QueueCap

\* ------------------------------------------------------- connection task
\* The message sender lives as long as handle_connection runs.
SessionRunning == sessPc \in {"hs_send", "hs_wait", "loop", "deliver"}

\* Faulty variant: the task ends but its command receiver stays alive.
TerminateKeepsReceiver(pc, result, error, reason, item) ==
    /\ sessPc' = pc
    /\ sessResult' = result
    /\ sessError' = error
    /\ exitReason' = reason
    /\ exitItem' = item
    /\ pendingMsg' = NoMsg
    /\ pendingCid' = NoChannel
    /\ cmdRxAlive' = cmdRxAlive
    /\ cmdQ' = cmdQ
    /\ netIn' = NoItem
    /\ serverDone' = TRUE

\* handle_connection returns (or is cancelled): the task's command_rx,
\* message_tx and framed are dropped.  Values still queued for a dropped
\* receiver are dropped with it; nobody reads the connection any more.
\* exitItem records the stream item the task was handling when it ended.
Terminate(pc, result, error, reason, item) ==
    /\ sessPc' = pc
    /\ sessResult' = result
    /\ sessError' = error
    /\ exitReason' = reason
    /\ exitItem' = item
    /\ pendingMsg' = NoMsg
    /\ pendingCid' = NoChannel
    /\ cmdRxAlive' = FALSE
    /\ cmdQ' = <<>>
    /\ netIn' = NoItem
    /\ serverDone' = TRUE

\* framed.send(OpenChannel).await? (repl.rs 49-59)
SessOpenChannel ==
    /\ sessPc = "hs_send"
    /\ \E ok \in BOOLEAN :
         IF ok
         THEN /\ wireOut' = Append(wireOut, OpenChannel)
              /\ sessPc' = "hs_wait"
              /\ UNCHANGED <<sessResult, sessError, exitReason, exitItem, pendingMsg,
                             pendingCid, cmdRxAlive, cmdQ, netIn, serverDone>>
         ELSE /\ Terminate("done", "Err", "io error", "WriteError", NoItem)
              /\ UNCHANGED wireOut
    /\ UNCHANGED <<cap, mainVars, replVars, chanId, dispVars, msgQ, shutQ, msgRxAlive,
                   framesSent, enqueued, arrived, placed, openedId, droppedAt, ignoredOther, procExited>>

\* Faulty variant: any reply that parses as a ManagementResponse opens the
\* channel, with the id it carries.
HandshakeOutcomeAnyReply(item) ==
    CASE item.kind = "Eof" ->
           [ok |-> FALSE, channel_id |-> NoChannel, error |-> "Connection closed"]
      [] item.kind = "IoError" ->
           [ok |-> FALSE, channel_id |-> NoChannel, error |-> "io error"]
      [] ~ParseResponse(item) ->
           [ok |-> FALSE, channel_id |-> NoChannel, error |-> "json error"]
      [] OTHER ->
           [ok |-> TRUE, channel_id |-> item.channel_id, error |-> ""]

\* The handshake reply (repl.rs 61-74): [ok, channel_id, error]
HandshakeOutcome(item) ==
    CASE item.kind = "Eof" ->
           [ok |-> FALSE, channel_id |-> NoChannel, error |-> "Connection closed"]
      [] item.kind = "IoError" ->
           [ok |-> FALSE, channel_id |-> NoChannel, error |-> "io error"]
      [] ~ParseResponse(item) ->
           [ok |-> FALSE, channel_id |-> NoChannel, error |-> "json error"]
      [] item.variant = "ChannelOpened" ->
           [ok |-> TRUE, channel_id |-> item.channel_id, error |-> ""]
      [] item.variant = "Error" ->
           [ok |-> FALSE, channel_id |-> NoChannel,
            error |-> "Failed to open channel: " \o item.message]
      [] OTHER ->
           [ok |-> FALSE, channel_id |-> NoChannel, error |-> "Unexpected response"]

\* Faulty variant: the commands enqueued during the handshake are discarded
\* when the channel opens.
SessHandshakeDropsBacklog ==
    /\ sessPc = "hs_wait"
    /\ netIn # NoItem
    /\ LET r == HandshakeOutcome(netIn) IN
         IF r.ok
         THEN /\ chanId' = r.channel_id
              /\ sessPc' = "loop"
              /\ netIn' = NoItem
              /\ cmdQ' = <<>>
              /\ UNCHANGED <<sessResult, sessError, exitReason, exitItem, pendingMsg,
                             pendingCid, cmdRxAlive, serverDone>>
         ELSE /\ Terminate("done", "Err", r.error, "HandshakeFailed", netIn)
              /\ UNCHANGED chanId
    /\ UNCHANGED <<cap, mainVars, replVars, dispVars, msgQ, shutQ, msgRxAlive, framesSent,
                   wireOut, enqueued, arrived, placed, openedId, droppedAt, ignoredOther,
                   procExited>>

\* framed.next().await and the match on the reply (repl.rs 61-74)
SessHandshake ==
    /\ sessPc = "hs_wait"
    /\ netIn # NoItem
    /\ LET r == HandshakeOutcome(netIn) IN
         IF r.ok
         THEN /\ chanId' = r.channel_id
              /\ sessPc' = "loop"
              /\ netIn' = NoItem
              /\ UNCHANGED <<sessResult, sessError, exitReason, exitItem, pendingMsg,
                             pendingCid, cmdRxAlive, cmdQ, serverDone>>
         ELSE /\ Terminate("done", "Err", r.error, "HandshakeFailed", netIn)
              /\ UNCHANGED chanId
    /\ UNCHANGED <<cap, mainVars, replVars, dispVars, msgQ, shutQ, msgRxAlive, framesSent, wireOut,
                   enqueued, arrived, placed, openedId, droppedAt, ignoredOther, procExited>>

\* Faulty variant: the loop also runs while the handshake reply is awaited.
InEventLoopEarly == sessPc \in {"hs_wait", "loop"}

\* The event loop polls its two sources only once the handshake is done
\* (repl.rs 76-78).
InEventLoop == sessPc = "loop"

\* Faulty variant: the newest queued command is taken first.
CmdRecvNewest(q) == [command |-> q[Len(q)], rest |-> SubSeq(q, 1, Len(q) - 1)]

\* command_rx.recv() (repl.rs 79): the oldest queued command.
CmdRecv(q) == [command |-> Head(q), rest |-> Tail(q)]

\* Faulty variant: CloseChannel names a fixed channel, not the recorded one.
CommandFrameFixedId(cid, command) ==
    IF command = Disconnect THEN CloseChannel("c1") ELSE SendOnChannel(cid, command)

\* Faulty variant: the test for Disconnect is inverted.
CommandFrameInverted(cid, command) ==
    IF command # Disconnect THEN CloseChannel(cid) ELSE SendOnChannel(cid, command)

\* The frame written for a command (repl.rs 81-96)
CommandFrame(cid, command) ==
    IF command = Disconnect THEN CloseChannel(cid) ELSE SendOnChannel(cid, command)

\* Faulty variant: a failed write is dropped with its command and the loop
\* goes on.
SessCommandSkipsFailedWrite ==
    /\ InEventLoop
    /\ cmdQ # <<>>
    /\ LET r == CmdRecv(cmdQ) IN
       \E ok \in BOOLEAN :
         IF ~ok
         THEN /\ cmdQ' = r.rest
              /\ UNCHANGED <<wireOut, sessPc, sessResult, sessError, exitReason, exitItem,
                             pendingMsg, pendingCid, cmdRxAlive, netIn, serverDone>>
         ELSE /\ wireOut' = Append(wireOut, CommandFrame(chanId, r.command))
              /\ IF r.command = Disconnect
                 THEN Terminate("done", "Ok", "", "Disconnect", NoItem)
                 ELSE /\ cmdQ' = r.rest
                      /\ UNCHANGED <<sessPc, sessResult, sessError, exitReason, exitItem,
                                     pendingMsg, pendingCid, cmdRxAlive, netIn,
                                     serverDone>>
    /\ UNCHANGED <<cap, mainVars, replVars, chanId, dispVars, msgQ, shutQ, msgRxAlive,
                   framesSent, enqueued, arrived, placed, openedId, droppedAt, ignoredOther, procExited>>

\* The command branch of select! (repl.rs 79-97)
SessCommand ==
    /\ InEventLoop
    /\ cmdQ # <<>>
    /\ LET r == CmdRecv(cmdQ) IN
       \E ok \in BOOLEAN :
         IF ~ok
         THEN /\ Terminate("done", "Err", "io error", "WriteError", NoItem)
              /\ UNCHANGED wireOut
         ELSE /\ wireOut' = Append(wireOut, CommandFrame(chanId, r.command))
              /\ IF r.command = Disconnect
                 THEN Terminate("done", "Ok", "", "Disconnect", NoItem)
                 ELSE /\ cmdQ' = r.rest
                      /\ UNCHANGED <<sessPc, sessResult, sessError, exitReason, exitItem,
                                     pendingMsg, pendingCid, cmdRxAlive, netIn,
                                     serverDone>>
    /\ UNCHANGED <<cap, mainVars, replVars, chanId, dispVars, msgQ, shutQ, msgRxAlive,
                   framesSent, enqueued, arrived, placed, openedId, droppedAt, ignoredOther, procExited>>

\* Faulty variant: a frame that is no ManagementResponse ends the loop.
InboundActionStrict(item) ==
    CASE item.kind = "IoError" -> "frame_error"
      [] item.kind = "Eof" -> "eof"
      [] ~ParseResponse(item) -> "frame_error"
      [] item.variant = "ChannelMessage" ->
           IF DecodeMessage(item.message).ok THEN "deliver" ELSE "ignore"
      [] item.variant = "ChannelClosed" -> "closed"
      [] OTHER -> "ignore"

\* Faulty variant: a payload that is no FrontendMessage ends the loop.
InboundActionFatalPayload(item) ==
    CASE item.kind = "IoError" -> "frame_error"
      [] item.kind = "Eof" -> "eof"
      [] ~ParseResponse(item) -> "ignore"
      [] item.variant = "ChannelMessage" ->
           IF DecodeMessage(item.message).ok THEN "deliver" ELSE "frame_error"
      [] item.variant = "ChannelClosed" -> "closed"
      [] OTHER -> "ignore"

\* Faulty variant: an Error response in steady state ends the loop.
InboundActionErrorFatal(item) ==
    CASE item.kind = "IoError" -> "frame_error"
      [] item.kind = "Eof" -> "eof"
      [] ~ParseResponse(item) -> "ignore"
      [] item.variant = "ChannelMessage" ->
           IF DecodeMessage(item.message).ok THEN "deliver" ELSE "ignore"
      [] item.variant \in {"ChannelClosed", "Error"} -> "closed"
      [] OTHER -> "ignore"

\* What the inbound branch does with one stream item (repl.rs 98-120)
InboundAction(item) ==
    CASE item.kind = "IoError" -> "frame_error"
      [] item.kind = "Eof" -> "eof"
      [] ~ParseResponse(item) -> "ignore"
      [] item.variant = "ChannelMessage" ->
           IF DecodeMessage(item.message).ok THEN "deliver" ELSE "ignore"
      [] item.variant = "ChannelClosed" -> "closed"
      [] OTHER -> "ignore"

\* A ChannelMessage whose payload is no FrontendMessage (repl.rs 103-104)
IsMalformedMessage(item) ==
    /\ item.kind = "Frame"
    /\ item.variant = "ChannelMessage"
    /\ ~DecodeMessage(item.message).ok

\* A frame that is no ManagementResponse, or one of a variant the loop has
\* no arm for (repl.rs 100-112)
IsOtherFrame(item) ==
    /\ item.kind = "Frame"
    /\ (~ParseResponse(item) \/ item.variant \notin {"ChannelMessage", "ChannelClosed"})

\* The inbound branch of select! (repl.rs 98-121)
SessInbound ==
    /\ InEventLoop
    /\ netIn # NoItem
    /\ LET a == InboundAction(netIn) IN
         CASE a = "deliver" ->
                /\ pendingMsg' = DecodeMessage(netIn.message).msg
                /\ pendingCid' = netIn.channel_id
                /\ sessPc' = "deliver"
                /\ netIn' = NoItem
                /\ UNCHANGED <<sessResult, sessError, exitReason, exitItem, cmdRxAlive,
                               cmdQ, serverDone>>
           [] a = "ignore" ->
                /\ netIn' = NoItem
                /\ UNCHANGED <<sessPc, sessResult, sessError, exitReason, exitItem,
                               pendingMsg, pendingCid, cmdRxAlive, cmdQ, serverDone>>
           [] a = "closed" -> Terminate("done", "Ok", "", "ChannelClosed", netIn)
           [] a = "frame_error" -> Terminate("done", "Ok", "", "FrameError", netIn)
           [] a = "eof" -> Terminate("done", "Ok", "", "Eof", netIn)
    /\ droppedAt' = IF /\ droppedAt = NotDropped
                        /\ IsMalformedMessage(netIn)
                        /\ netIn.channel_id = chanId
                     THEN Len(placed)
                     ELSE droppedAt
    /\ ignoredOther' = (ignoredOther \/ (IsOtherFrame(netIn) /\ InboundAction(netIn) = "ignore"))
    /\ UNCHANGED <<cap, mainVars, replVars, chanId, dispVars, msgQ, shutQ, msgRxAlive,
                   framesSent, wireOut, enqueued, arrived, placed, openedId,
                   procExited>>

\* Faulty variant: the message goes to the front.
MsgSendFront(q, msg) == <<msg>> \o q

\* message_tx.send(msg) (repl.rs 105): the message goes to the back.
MsgSend(q, msg) == Append(q, msg)

\* message_tx.send(msg).await (repl.rs 105-107): suspends while the queue is
\* full, fails once the receiver has been dropped.
SessDeliver ==
    /\ sessPc = "deliver"
    /\ IF ~msgRxAlive
       THEN /\ Terminate("done", "Ok", "", "MessageQueueClosed", NoItem)
            /\ UNCHANGED <<msgQ, placed>>
       ELSE /\ Len(msgQ) < cap
            /\ msgQ' = MsgSend(msgQ, pendingMsg)
            /\ placed' = Append(placed, pendingMsg)
            /\ pendingMsg' = NoMsg
            /\ pendingCid' = NoChannel
            /\ sessPc' = "loop"
            /\ UNCHANGED <<sessResult, sessError, exitReason, exitItem, cmdRxAlive, cmdQ,
                           netIn, serverDone>>
    /\ UNCHANGED <<cap, mainVars, replVars, chanId, dispVars, shutQ, msgRxAlive, framesSent, wireOut,
                   enqueued, arrived, openedId, droppedAt, ignoredOther, procExited>>

\* ---------------------------------------------------------------- server
\* The server (environment) puts the next item on the connection.
ServerSend ==
    /\ ~serverDone
    /\ netIn = NoItem
    /\ framesSent < MaxFrames
    /\ \E item \in StreamItems :
         /\ netIn' = item
         /\ serverDone' = (item.kind \in {"IoError", "Eof"})
         /\ arrived' = IF item.kind = "Frame" /\ item.variant = "ChannelMessage"
                          /\ DecodeMessage(item.message).ok
                       THEN Append(arrived, DecodeMessage(item.message).msg)
                       ELSE arrived
         /\ openedId' = IF framesSent = 0 /\ item.variant = "ChannelOpened"
                        THEN item.channel_id
                        ELSE openedId
    /\ framesSent' = framesSent + 1
    /\ UNCHANGED <<cap, mainVars, replVars, sessVars, dispVars, queueVars, wireOut,
                   enqueued, placed, pendingCid, droppedAt, ignoredOther, procExited>>

\* ------------------------------------------------------------- run_repl
\* ChannelRepl::new (repl.rs 15-39) as run_repl calls it (repl.rs 287): the
\* connect may fail; otherwise the queues are created, the connection task
\* is spawned and the handle is returned.
ReplNew ==
    /\ replPc = "new"
    /\ \E connected \in BOOLEAN :
         IF connected
         THEN /\ newResult' = "Ok"
              /\ replPc' = "setup"
              /\ sessPc' = "hs_send"
              /\ cmdRxAlive' = TRUE
              /\ msgRxAlive' = TRUE
              /\ UNCHANGED replResult
         ELSE /\ newResult' = "Err"
              /\ replPc' = "done"
              /\ replResult' = "Err"
              /\ UNCHANGED <<sessPc, cmdRxAlive, msgRxAlive>>
    /\ UNCHANGED <<cap, mainVars, inputs, pendingCmd, verbose, openAtDisconnect, sendFailed, sessResult, sessError,
                   exitReason,
                   exitItem, chanId, pendingMsg, dispVars, cmdQ, msgQ, shutQ, netVars, ghostVars>>

\* "Channel opened successfully", the line editor and the display task
\* (repl.rs 288-322).  A failing DefaultEditor::new() returns from run_repl
\* and drops the handle's queue endpoints.
ReplSetup ==
    /\ replPc = "setup"
    /\ \E editor \in BOOLEAN :
         IF editor
         THEN /\ replPc' = "input"
              /\ dispPc' = "running"
              /\ UNCHANGED <<replResult, msgRxAlive, msgQ>>
         ELSE /\ replPc' = "done"
              /\ replResult' = "Err"
              /\ msgRxAlive' = FALSE
              /\ msgQ' = <<>>
              /\ UNCHANGED dispPc
    /\ UNCHANGED <<cap, mainVars, newResult, inputs, pendingCmd, verbose, openAtDisconnect, sendFailed, sessVars,
                   rendered, consumed, cmdQ,
                   shutQ, cmdRxAlive, netVars, ghostVars>>

\* The lines the user types, already trimmed.
Lines == {"status", "change x", "exit", "quit", "help", "bogus"}

\* parse_command (repl.rs 128-153): [ok, cmd]
ParseCommand(line) ==
    CASE line = "start" -> [ok |-> TRUE, cmd |-> Cmd("StartActor", "")]
      [] line = "stop" -> [ok |-> TRUE, cmd |-> Cmd("StopActor", "")]
      [] line = "build" -> [ok |-> TRUE, cmd |-> Cmd("BuildActor", "")]
      [] line = "status" -> [ok |-> TRUE, cmd |-> Cmd("GetStatus", "")]
      [] line \in {"exit", "quit"} -> [ok |-> TRUE, cmd |-> Disconnect]
      [] line = "change x" -> [ok |-> TRUE, cmd |-> Cmd("ChangeRequest", "x")]
      [] OTHER -> [ok |-> FALSE, cmd |-> NoCmd]

\* rl.readline and the match on it (repl.rs 329-366), up to the await of
\* command_tx.send.
ReplReadLine ==
    /\ replPc = "input"
    /\ inputs < MaxInputs
    /\ inputs' = inputs + 1
    /\ \/ \E line \in Lines :
            LET r == ParseCommand(line) IN
              IF r.ok
              THEN pendingCmd' = r.cmd /\ replPc' = "enqueue"
              ELSE UNCHANGED <<pendingCmd, replPc>>
       \/ \* Interrupted or Eof (repl.rs 354-361)
          pendingCmd' = Disconnect /\ replPc' = "enqueue"
       \/ \* any other readline error (repl.rs 362-365)
          replPc' = "shutdown" /\ UNCHANGED pendingCmd
    /\ UNCHANGED <<cap, mainVars, replResult, newResult, verbose, openAtDisconnect, sendFailed, sessVars, dispVars,
                   queueVars, netVars, ghostVars>>

\* command_tx.send(cmd).await (repl.rs 336-345, 357-360): suspends while the
\* queue is full, fails once the receiver has been dropped.  The loop ends
\* after a Disconnect, sent or not, and after any failed send.
ReplEnqueue ==
    /\ replPc = "enqueue"
    /\ IF ~cmdRxAlive
       THEN /\ replPc' = "shutdown"
            /\ sendFailed' = TRUE
            /\ UNCHANGED <<cmdQ, enqueued, openAtDisconnect>>
       ELSE /\ Len(cmdQ) < cap
            /\ cmdQ' = Append(cmdQ, pendingCmd)
            /\ enqueued' = Append(enqueued, pendingCmd)
            /\ replPc' = IF pendingCmd = Disconnect THEN "shutdown" ELSE "input"
            /\ openAtDisconnect' = (pendingCmd = Disconnect /\ sessPc \in {"loop", "deliver"})
            /\ UNCHANGED sendFailed
    /\ pendingCmd' = NoCmd
    /\ UNCHANGED <<cap, mainVars, replResult, newResult, inputs, verbose, sessVars, dispVars, msgQ,
                   shutQ, cmdRxAlive, msgRxAlive, netVars, arrived, placed, pendingCid,
                   openedId, droppedAt, ignoredOther, procExited>>

\* shutdown_tx.send(()).await (repl.rs 369-370)
ReplShutdown ==
    /\ replPc = "shutdown"
    /\ shutQ < ShutdownCap
    /\ shutQ' = shutQ + 1
    /\ replPc' = "join"
    /\ UNCHANGED <<cap, mainVars, replResult, newResult, inputs, pendingCmd, verbose, openAtDisconnect, sendFailed,
                   sessVars, dispVars, cmdQ, msgQ, cmdRxAlive, msgRxAlive, netVars, ghostVars>>

\* Faulty variant: run_repl also waits for the connection task to end.
ReplJoinWaitsSession ==
    /\ replPc = "join"
    /\ dispPc = "done"
    /\ ~SessionRunning
    /\ replPc' = "done"
    /\ replResult' = "Ok"
    /\ UNCHANGED <<cap, mainVars, newResult, inputs, pendingCmd, verbose, openAtDisconnect,
                   sendFailed, sessVars, dispVars, queueVars, netVars, ghostVars>>

\* display_handle.await, "Goodbye!", Ok(()) (repl.rs 372-378)
ReplJoin ==
    /\ replPc = "join"
    /\ dispPc = "done"
    /\ replPc' = "done"
    /\ replResult' = "Ok"
    /\ UNCHANGED <<cap, mainVars, newResult, inputs, pendingCmd, verbose, openAtDisconnect, sendFailed, sessVars,
                   dispVars, queueVars, netVars, ghostVars>>

\* main returns once run_repl has (main.rs 239-244): the runtime is dropped
\* and a connection task still running is cancelled where it is suspended.
RuntimeShutdown ==
    /\ replPc = "done"
    /\ ~procExited
    /\ procExited' = TRUE
    /\ IF SessionRunning
       THEN Terminate("cancelled", "-", "", "Cancelled", NoItem)
       ELSE UNCHANGED <<sessPc, sessResult, sessError, exitReason, exitItem, pendingMsg,
                        pendingCid, cmdRxAlive, cmdQ, netIn, serverDone>>
    /\ UNCHANGED <<cap, mainVars, replVars, chanId, dispVars, msgQ, shutQ, msgRxAlive, framesSent,
                   wireOut, enqueued, arrived, placed, openedId, droppedAt, ignoredOther>>

\* --------------------------------------------------------- display task
\* should_display (repl.rs 306-311)
ShouldDisplay(msg, verbose_setting) ==
    IF msg.kind = "BuildEvent"
    THEN verbose_setting \/ msg.event_type = "BuildComplete"
    ELSE TRUE

\* Faulty variant: messages are taken off the queue only once the input
\* loop has ended, as if rendering were done by run_repl itself.
DispRecvAfterInput ==
    /\ dispPc = "running"
    /\ replPc \notin {"input", "enqueue"}
    /\ msgQ # <<>>
    /\ msgQ' = Tail(msgQ)
    /\ rendered' = IF ShouldDisplay(Head(msgQ), verbose)
                   THEN Append(rendered, Head(msgQ))
                   ELSE rendered
    /\ consumed' = Append(consumed, Head(msgQ))
    /\ UNCHANGED <<cap, mainVars, replVars, sessVars, dispPc, cmdQ, shutQ, cmdRxAlive,
                   msgRxAlive, netVars, ghostVars>>

\* Some(msg) = message_rx.recv() (repl.rs 304-316)
DispRecv ==
    /\ dispPc = "running"
    /\ msgQ # <<>>
    /\ msgQ' = Tail(msgQ)
    /\ rendered' = IF ShouldDisplay(Head(msgQ), verbose)
                   THEN Append(rendered, Head(msgQ))
                   ELSE rendered
    /\ consumed' = Append(consumed, Head(msgQ))
    /\ UNCHANGED <<cap, mainVars, replVars, sessVars, dispPc, cmdQ, shutQ, cmdRxAlive, msgRxAlive,
                   netVars, ghostVars>>

\* _ = shutdown_rx.recv() => break (repl.rs 317-319): the task ends and
\* its message_rx is dropped with whatever is still queued.
DispShutdown ==
    /\ dispPc = "running"
    /\ shutQ > 0
    /\ shutQ' = shutQ - 1
    /\ dispPc' = "done"
    /\ msgRxAlive' = FALSE
    /\ msgQ' = <<>>
    /\ UNCHANGED <<cap, mainVars, replVars, sessVars, rendered, consumed, cmdQ, cmdRxAlive, netVars,
                   ghostVars>>

\* ---------------------------------------------------------------- system
Next ==
    \/ ReplNew
    \/ ReplSetup
    \/ ReplReadLine
    \/ ReplEnqueue
    \/ ReplShutdown
    \/ ReplJoin
    \/ RuntimeShutdown
    \/ SessOpenChannel
    \/ SessHandshake
    \/ SessCommand
    \/ SessInbound
    \/ SessDeliver
    \/ DispRecv
    \/ DispShutdown
    \/ ServerSend

Spec == Init /\ [][Next]_vars

\* The same program with queues of the smallest capacity, so that a full
\* queue is met within MaxInputs lines and MaxFrames frames.
TightInit == ReplInit /\ BootFinished /\ cap = SmallCap
TightSpec == TightInit /\ [][Next]_vars

\* tokio schedules every spawned task that can make progress, and a send
\* that can complete does complete; the user and the server owe nothing.
Fairness ==
    /\ WF_vars(SessOpenChannel) /\ WF_vars(SessHandshake)
    /\ WF_vars(SessCommand) /\ WF_vars(SessInbound) /\ WF_vars(SessDeliver)
    /\ WF_vars(DispRecv) /\ WF_vars(DispShutdown)
    /\ WF_vars(ReplEnqueue) /\ WF_vars(ReplShutdown) /\ WF_vars(ReplJoin)
FairTightSpec == TightSpec /\ Fairness

\* ------------------------------------------------------ bootstrap (main)
runReplVars == <<cap, replVars, sessVars, dispVars, queueVars, netVars, ghostVars>>

\* ManagementCommand -> the ManagementResponse that answers it
\* (protocol.rs 4-58)
MatchingReply(request) ==
    CASE request = "NewStore" -> "StoreCreated"
      [] request = "StartActor" -> "ActorStarted"
      [] request = "RequestActorMessage" -> "RequestedMessage"

\* What the server may do about a request on main's connection: answer it,
\* refuse it, close the connection, or send nothing for it.
NoReply == "-"
Replies(request) == {MatchingReply(request), "Error", "Eof", NoReply}

\* main starts with its arguments parsed (main.rs 172)
BootInit ==
    /\ ReplInit /\ cap = QueueCap
    /\ bootPc = "connect" /\ bootArgs \in Args
    /\ bootOut = <<>> /\ bootIn = <<>> /\ bootReads = 0 /\ bootError = ""

\* return Err(..) from main, directly or through `?`
BootFail(error) ==
    /\ bootPc' = "failed"
    /\ bootError' = error

\* framed.send(request).await? (main.rs 37, 76, 110, 154, 217)
BootSend(request, next) ==
    \E ok \in BOOLEAN :
      IF ok
      THEN /\ bootOut' = Append(bootOut, request)
           /\ bootPc' = next
           /\ UNCHANGED bootError
      ELSE /\ BootFail("io error")
           /\ UNCHANGED bootOut

\* TcpStream::connect(&args.address).await? (main.rs 175)
BootConnect ==
    /\ bootPc = "connect"
    /\ \E connected \in BOOLEAN :
         IF connected
         THEN bootPc' = "store" /\ UNCHANGED bootError
         ELSE BootFail("connect")
    /\ UNCHANGED <<bootArgs, bootOut, bootIn, bootReads, runReplVars>>

\* The store id (main.rs 183-192)
BootStoreId ==
    /\ bootPc = "store"
    /\ IF bootArgs.new_store
       THEN BootSend("NewStore", "store_wait")
       ELSE IF bootArgs.store_id
            THEN bootPc' = "build_store" /\ UNCHANGED <<bootOut, bootError>>
            ELSE /\ BootFail("Please provide either --new-store flag or --store-id <ID>")
                 /\ UNCHANGED bootOut
    /\ UNCHANGED <<bootArgs, bootIn, bootReads, runReplVars>>

\* The build store id (main.rs 194-200)
BootBuildStoreId ==
    /\ bootPc = "build_store"
    /\ IF bootArgs.build_store_id
       THEN bootPc' = "content_fs" /\ UNCHANGED <<bootOut, bootError>>
       ELSE BootSend("NewStore", "build_store_wait")
    /\ UNCHANGED <<bootArgs, bootIn, bootReads, runReplVars>>

\* start_content_fs, its request (main.rs 62-76, 203)
BootStartContentFs ==
    /\ bootPc = "content_fs"
    /\ BootSend("StartActor", "content_fs_wait")
    /\ UNCHANGED <<bootArgs, bootIn, bootReads, runReplVars>>

\* The health check (main.rs 205-217): the request is sent and main goes on
\* to the next request without reading from the connection.
BootHealthCheck ==
    /\ bootPc = "health"
    /\ BootSend("RequestActorMessage", IF bootArgs.new_store THEN "uploader" ELSE "manager")
    /\ UNCHANGED <<bootArgs, bootIn, bootReads, runReplVars>>

\* start_actor_uploader, its request (main.rs 96-110, 220-222)
BootStartUploader ==
    /\ bootPc = "uploader"
    /\ BootSend("StartActor", "uploader_wait")
    /\ UNCHANGED <<bootArgs, bootIn, bootReads, runReplVars>>

\* start_manager_actor up to its request (main.rs 133-154, 231)
BootStartManager ==
    /\ bootPc = "manager"
    /\ IF bootArgs.api_key
       THEN BootSend("StartActor", "manager_wait")
       ELSE /\ BootFail("ANTHROPIC_API_KEY environment variable not set")
            /\ UNCHANGED bootOut
    /\ UNCHANGED <<bootArgs, bootIn, bootReads, runReplVars>>

\* The response each read of main expects, and where main goes with it
Expected(pc) == IF pc \in {"store_wait", "build_store_wait"}
                THEN "StoreCreated"
                ELSE "ActorStarted"
AfterRead(pc) ==
    CASE pc = "store_wait" -> "build_store"
      [] pc = "build_store_wait" -> "content_fs"
      [] pc = "content_fs_wait" -> "health"
      [] pc = "uploader_wait" -> "manager"
      [] pc = "manager_wait" -> "repl"

\* framed.next().await and the match on the response (main.rs 39-55,
\* 78-89, 112-125, 156-167): the next frame of the connection, whichever
\* request it answers.
BootRead ==
    /\ bootPc \in {"store_wait", "build_store_wait", "content_fs_wait",
                   "uploader_wait", "manager_wait"}
    /\ \E i \in (bootReads + 1)..Len(bootIn) :
         /\ bootIn[i] # NoReply
         /\ \A j \in (bootReads + 1)..(i - 1) : bootIn[j] = NoReply
         /\ bootReads' = i
    /\ LET response == bootIn[bootReads'] IN
         CASE response = "Eof" -> BootFail("No response received")
           [] response = Expected(bootPc) ->
                bootPc' = AfterRead(bootPc) /\ UNCHANGED bootError
           [] OTHER -> BootFail("Unexpected response type")
    /\ UNCHANGED <<bootArgs, bootOut, bootIn, runReplVars>>

\* The server deals with the oldest request it has not dealt with yet.
BootServerReply ==
    /\ Len(bootIn) < Len(bootOut)
    /\ \A i \in 1..Len(bootIn) : bootIn[i] # "Eof"
    /\ \E response \in Replies(bootOut[Len(bootIn) + 1]) :
         bootIn' = Append(bootIn, response)
    /\ UNCHANGED <<bootPc, bootArgs, bootOut, bootReads, bootError, runReplVars>>

BootNext ==
    \/ BootConnect
    \/ BootStoreId
    \/ BootBuildStoreId
    \/ BootStartContentFs
    \/ BootHealthCheck
    \/ BootStartUploader
    \/ BootStartManager
    \/ BootRead
    \/ BootServerReply

BootSpec == BootInit /\ [][BootNext]_vars

\* ---------------------------------------------------------------- claims
IsPrefix(a, b) == Len(a) <= Len(b) /\ \A i \in 1..Len(a) : a[i] = b[i]
OfType(t) == SelectSeq(wireOut, LAMBDA f : f.type = t)
IsChannelFrame(f) == f.type \in {"SendOnChannel", "CloseChannel"}
\* The commands the receiving end reads off the SendOnChannel frames, in wire order.
SentCommands ==
    LET fs == OfType("SendOnChannel") IN [i \in 1..Len(fs) |-> DecodeCommand(fs[i].message)]
\* The non-Disconnect commands in the order they entered the command queue.
EnqueuedCommands == SelectSeq(enqueued, LAMBDA c : c # Disconnect)

\* C1: as long as no ChannelOpened has answered the session's OpenChannel,
\* the wire carries nothing but (at most) the single OpenChannel request,
\* whatever is waiting on the command queue.
NoChannelFrameBeforeOpened ==
    (chanId = NoChannel \/ openedId = NoChannel)
        => (wireOut = <<>> \/ wireOut = <<OpenChannel>>)

\* C1 witness: two commands wait on the queue while the handshake is pending.
CommandsWaitBeforeOpened ==
    /\ chanId = NoChannel
    /\ sessPc = "hs_wait"
    /\ wireOut = <<OpenChannel>>
    /\ Len(cmdQ) = 2

\* C2: the session handle is returned to the caller only after ChannelOpened
\* has been received on the session connection.
HandleOnlyAfterHandshake == newResult = "Ok" => chanId # NoChannel

\* C3: when the server answers OpenChannel with Error{message}, the caller
\* of ChannelRepl::new gets an error and no session handle.
RejectedOpenFailsNew ==
    (exitReason = "HandshakeFailed" /\ exitItem.variant = "Error") => newResult = "Err"

\* C4: every SendOnChannel and CloseChannel carries the channel id of the
\* ChannelOpened that answered the handshake, OpenChannel is sent at most
\* once, and the recorded id is that of the handshake reply whenever set (so
\* it never changes).
ChannelIdBinding ==
    /\ Len(OfType("OpenChannel")) <= 1
    /\ \A i \in 1..Len(wireOut) :
         IsChannelFrame(wireOut[i])
             => (openedId \in ChannelIds /\ wireOut[i].channel_id = openedId)
    /\ chanId # NoChannel => chanId = openedId

\* C4 witness: a SendOnChannel and a CloseChannel are on the wire of a
\* session whose channel is "c2".
ChannelFramesOnWire ==
    /\ chanId = "c2"
    /\ Len(OfType("SendOnChannel")) >= 1
    /\ Len(OfType("CloseChannel")) = 1

\* C5: a ChannelMessage whose channel_id is not the session's own is ignored:
\* no step places a message on the message queue for it.
ForeignMessageIgnored ==
    [][(pendingCid # NoChannel /\ pendingCid # chanId) => placed' = placed]_vars

\* C6: only a ChannelClosed with the session's own channel id ends the event
\* loop; one with a foreign id does not.
ForeignCloseIgnored ==
    (chanId # NoChannel /\ exitItem.variant = "ChannelClosed")
        => exitItem.channel_id = chanId

\* C7: once Disconnect has been enqueued for an open session, the event loop
\* exits having sent exactly one CloseChannel, also when inbound messages
\* arrive and the display task has been told to stop.  (Stated for runs in
\* which the connection stays intact and the server does not close the
\* channel first.)
DisconnectSendsClose ==
    ( /\ sessPc = "done"
      /\ openAtDisconnect
      /\ exitReason \notin {"WriteError", "FrameError", "Eof", "ChannelClosed"} )
        => Len(OfType("CloseChannel")) = 1

\* C8: the commands carried by the SendOnChannel frames on the wire are, in
\* order and without duplicates, a prefix of the non-Disconnect commands in
\* the order they were enqueued.
OutboundFifo == IsPrefix(SentCommands, EnqueuedCommands)

\* C8 witness: two different commands have been sent while an inbound message
\* was delivered in between.
TwoCommandsOnWire ==
    /\ Len(SentCommands) = 2
    /\ SentCommands[1] # SentCommands[2]
    /\ placed # <<>>

\* C9: the messages that went through the message queue (taken by the
\* consumer, then those still queued) are, in order and without duplicates, a
\* prefix of the well-formed ChannelMessage payloads in arrival order.
InboundFifo ==
    /\ IsPrefix(consumed \o msgQ, arrived)
    /\ IsPrefix(placed, arrived)

\* C9 witness: two different messages sit on the message queue while a
\* command has gone out on the wire.
TwoMessagesQueued ==
    /\ Len(msgQ) = 2
    /\ msgQ[1] # msgQ[2]
    /\ Len(OfType("SendOnChannel")) >= 1

\* What the original C10 allows as the end of an event loop that was entered.
ExitByCloseDisconnectOrIo ==
    \/ exitItem.variant = "ChannelClosed"
    \/ exitReason = "Disconnect" /\ wireOut[Len(wireOut)].type = "CloseChannel"
    \/ exitItem.kind \in {"IoError", "Eof"}
    \/ exitReason = "WriteError"

\* C10 as stated: the loop ends only on a received ChannelClosed, a
\* CloseChannel sent for Disconnect, or an I/O error on the connection.
LoopExitsOnlyThreeWays ==
    (sessPc = "done" /\ chanId # NoChannel) => ExitByCloseDisconnectOrIo

\* C10 as amended: the loop returns only on a received ChannelClosed, a
\* CloseChannel sent for Disconnect, an I/O error or end of stream on the
\* connection, or a message that cannot be enqueued because the message
\* queue's receiver has been dropped.
LoopExitsFourWays ==
    (sessPc = "done" /\ chanId # NoChannel)
        => \/ ExitByCloseDisconnectOrIo
           \/ exitReason = "MessageQueueClosed" /\ ~msgRxAlive

\* C10 witness: the loop has ended because the message receiver was gone.
LoopEndedOnClosedMessageQueue ==
    /\ sessPc = "done"
    /\ chanId # NoChannel
    /\ exitReason = "MessageQueueClosed"

\* C11: once the connection task has ended, by whatever path, its command
\* receiver is gone and nothing waits in the command queue; from then on no
\* command is accepted, an attempted enqueue ends with the send error the
\* input loop reports and leaves, and no message is added to the message
\* queue any more, so that the display task reaches its end.
SessionEnded == sessPc \in {"done", "cancelled"}
QueuesClosedAfterTermination ==
    /\ [](SessionEnded => (~cmdRxAlive /\ cmdQ = <<>> /\ pendingMsg = NoMsg))
    /\ [][SessionEnded =>
            /\ enqueued' = enqueued
            /\ cmdQ' = <<>>
            /\ placed' = placed
            /\ Len(msgQ') <= Len(msgQ)
            /\ (replPc = "enqueue" /\ replPc' # "enqueue") =>
                  (sendFailed' /\ replPc' = "shutdown")]_vars
\* A command was refused after the task had ended, and the display task has
\* drained the message queue.
EnqueueRefusedAfterTermination ==
    /\ sessPc = "done"
    /\ sendFailed
    /\ enqueued = <<>>
    /\ Len(consumed) >= 1
    /\ msgQ = <<>>

\* C12: when the session takes a ChannelMessage of its channel whose payload
\* is no FrontendMessage, it stays in its loop, queues nothing, writes
\* nothing and keeps both queues; and after such a drop a well-formed
\* ChannelMessage is still decoded and handed to the message queue.
MalformedPayloadDropped ==
    [][/\ (SessInbound /\ IsMalformedMessage(netIn) /\ netIn.channel_id = chanId) =>
            /\ sessPc' = "loop"
            /\ pendingMsg' = NoMsg
            /\ placed' = placed /\ msgQ' = msgQ
            /\ cmdRxAlive' /\ cmdQ' = cmdQ
            /\ wireOut' = wireOut
       /\ (/\ SessInbound /\ droppedAt # NotDropped
           /\ netIn.kind = "Frame" /\ netIn.variant = "ChannelMessage"
           /\ DecodeMessage(netIn.message).ok) =>
            /\ sessPc' = "deliver"
            /\ pendingMsg' = DecodeMessage(netIn.message).msg
       /\ (SessDeliver /\ droppedAt # NotDropped /\ msgRxAlive) =>
            /\ placed' = Append(placed, pendingMsg)
            /\ sessPc' = "loop"]_vars
\* A message was queued after the session had dropped a malformed payload.
MessageQueuedAfterDrop ==
    /\ droppedAt = 0
    /\ Len(placed) = 1
    /\ sessPc = "loop"

\* C13: a session whose event loop ended on end-of-stream or on a frame
\* error of the connection has an error as its outcome, which tells it from
\* a loop ended by ChannelClosed or by Disconnect.
ConnectionLossIsAnError ==
    (exitReason \in {"FrameError", "Eof"}) => sessResult = "Err"

\* C14: when run_repl returns and the session has ended with an error
\* (failed handshake, failed write), run_repl returns that error.
FatalErrorsReachDriver ==
    [][(replPc = "join" /\ replPc' = "done" /\ sessResult = "Err")
          => replResult' = "Err"]_vars

\* C15: when the process ends after Disconnect was enqueued for an open
\* session, every command enqueued before it is on the wire as SendOnChannel
\* and one CloseChannel has been sent.  (Stated for runs in which the
\* connection stays intact, the server does not close the channel first and
\* the session does not stop on a closed message queue.)
DisconnectDrainsCommands ==
    ( /\ procExited
      /\ openAtDisconnect
      /\ exitReason \notin {"WriteError", "FrameError", "Eof", "ChannelClosed",
                             "MessageQueueClosed"} )
        => (SentCommands = EnqueuedCommands /\ Len(OfType("CloseChannel")) = 1)

\* C16: whenever run_repl sends the shutdown signal to the display task,
\* Disconnect has been enqueued or the connection task has already ended.
DisconnectEnqueued == \E i \in 1..Len(enqueued) : enqueued[i] = Disconnect
ShutdownOnlyAfterStopRequest ==
    [][(replPc = "shutdown" /\ replPc' = "join")
          => (DisconnectEnqueued \/ ~SessionRunning)]_vars

\* C17: once the display task has stopped after a Disconnect was enqueued,
\* every message the session put on the message queue has been consumed by
\* the display task.
NoMessageLostAtShutdown ==
    (dispPc = "done" /\ DisconnectEnqueued) => consumed = placed

\* C18 as stated: whenever the session is suspended in the delivery of a
\* message because the message queue is full, a command the input loop
\* wants to enqueue can be enqueued.
StalledDeliveryNeverBlocksInput ==
    (replPc = "enqueue" /\ sessPc = "deliver" /\ msgRxAlive /\ Len(msgQ) = cap)
        => ENABLED ReplEnqueue

\* C18: while the input loop waits for the user, a message the session is
\* delivering is eventually consumed by the display task; while the session
\* is suspended in a delivery, a command can be enqueued as long as the
\* command queue has room, and with a full command queue the enqueue still
\* completes eventually.
InputAndDeliveryIndependent ==
    /\ \A k \in 0..MaxFrames :
         (sessPc = "deliver" /\ Len(placed) = k /\ replPc = "input")
            ~> (Len(consumed) > k \/ replPc # "input")
    /\ []((replPc = "enqueue" /\ sessPc = "deliver" /\ Len(cmdQ) < cap)
            => ENABLED ReplEnqueue)
    /\ (replPc = "enqueue" /\ sessPc = "deliver") ~> (replPc # "enqueue")
\* The input loop waits on a full command queue while the session waits on
\* a full message queue.
BothQueuesFull ==
    /\ replPc = "enqueue" /\ cmdRxAlive /\ Len(cmdQ) = cap
    /\ sessPc = "deliver" /\ msgRxAlive /\ Len(msgQ) = cap

\* C19: as long as the server has answered the requests of main in order,
\* each with its matching variant, main never fails on an unexpected
\* response, and when it calls run_repl it has read the response of every
\* request it sent.
ServerMatches ==
    /\ Len(bootIn) <= Len(bootOut)
    /\ \A i \in 1..Len(bootIn) : bootIn[i] = MatchingReply(bootOut[i])
BootstrapCompletesInOrder ==
    ServerMatches =>
        /\ bootError # "Unexpected response type"
        /\ bootPc = "repl" => bootReads = Len(bootOut)

\* C20: the wire never carries more than one CloseChannel, a CloseChannel
\* is the last frame on it, and once the connection task has ended nothing
\* more is written.
AtMostOneCloseThenSilence ==
    /\ [](/\ Len(OfType("CloseChannel")) <= 1
          /\ Len(OfType("CloseChannel")) = 1 =>
                wireOut[Len(wireOut)].type = "CloseChannel")
    /\ [][SessionEnded => wireOut' = wireOut]_vars
\* The session sent a command, then CloseChannel, and the process has ended.
ClosedAfterCommand ==
    /\ procExited
    /\ exitReason = "Disconnect"
    /\ Len(SentCommands) >= 1
    /\ Len(OfType("CloseChannel")) = 1

\* C21: when the event loop takes a frame that is no ManagementResponse, or
\* one of a variant other than ChannelMessage and ChannelClosed, the session
\* stays in its loop with the same channel id and the same outcome, queues
\* no message, writes nothing and keeps its command queue.
OtherFramesIgnored ==
    [][(SessInbound /\ IsOtherFrame(netIn)) =>
          /\ sessPc' = "loop"
          /\ chanId' = chanId
          /\ sessResult' = sessResult /\ exitReason' = exitReason
          /\ pendingMsg' = NoMsg
          /\ placed' = placed /\ msgQ' = msgQ
          /\ wireOut' = wireOut
          /\ cmdRxAlive' /\ cmdQ' = cmdQ]_vars
\* The loop has taken such a frame and is polling again.
OtherFrameIgnoredLoopRuns ==
    /\ ignoredOther
    /\ sessPc = "loop"
    /\ netIn = NoItem
    /\ chanId = openedId

\* C22: a step of the command branch that leaves the wire as it was (the
\* write failed) ends the session with that error as its outcome and with
\* its command queue dropped; after such an end nothing is written, no
\* message is taken or queued, and the outcome stays.
WriteFailureIsFatal ==
    /\ [][(SessCommand /\ wireOut' = wireOut) =>
            /\ sessPc' = "done"
            /\ sessResult' = "Err" /\ exitReason' = "WriteError"
            /\ ~cmdRxAlive' /\ cmdQ' = <<>>
            /\ netIn' = NoItem]_vars
    /\ [][exitReason = "WriteError" =>
            /\ wireOut' = wireOut
            /\ placed' = placed /\ pendingMsg' = NoMsg
            /\ netIn' = NoItem
            /\ sessPc' = "done" /\ sessResult' = "Err"]_vars
\* The first command's write failed in an open session while a second
\* command had been enqueued: the wire holds OpenChannel and nothing else
\* when the process has ended.
SecondCommandNeverSent ==
    /\ exitReason = "WriteError"
    /\ chanId # NoChannel
    /\ Len(enqueued) = 2
    /\ Len(wireOut) = 1
    /\ procExited

\* C23: when the first item of the connection is not ChannelOpened, the
\* session never enters its event loop and binds no channel id, the wire
\* carries no SendOnChannel and no CloseChannel, and no message is queued;
\* once the session has taken that item it has ended with an error, its
\* command receiver is gone and its command queue is empty.
HandshakeAnswered == framesSent >= 1 /\ openedId = NoChannel
FailedHandshakeEndsSession ==
    HandshakeAnswered =>
        /\ sessPc \notin {"loop", "deliver"}
        /\ chanId = NoChannel
        /\ \A i \in 1..Len(wireOut) : ~IsChannelFrame(wireOut[i])
        /\ placed = <<>> /\ msgQ = <<>> /\ pendingMsg = NoMsg
        /\ exitReason \in {"-", "WriteError", "HandshakeFailed", "Cancelled"}
        /\ exitReason = "HandshakeFailed" =>
              /\ sessPc = "done" /\ sessResult = "Err"
              /\ ~cmdRxAlive /\ cmdQ = <<>>
\* The handshake failed while a command was waiting, and a later command was
\* refused.
HandshakeFailedWithCommandWaiting ==
    /\ exitReason = "HandshakeFailed"
    /\ Len(enqueued) = 1
    /\ sendFailed

\* C24: until the handshake has completed every enqueued command is still
\* in the command queue and no SendOnChannel is on the wire; the step that
\* completes the handshake leaves the queue and the wire as they are; and
\* the commands on the wire are always a prefix of the enqueued ones, each
\* in a SendOnChannel that carries the channel id of the session.
EarlyCommandsHeldThenSent ==
    /\ [](sessPc \in {"unspawned", "hs_send", "hs_wait"} =>
            (cmdQ = enqueued /\ OfType("SendOnChannel") = <<>>))
    /\ [][(sessPc = "hs_wait" /\ sessPc' = "loop") =>
            (cmdQ' = cmdQ /\ wireOut' = wireOut)]_vars
    /\ [](/\ IsPrefix(SentCommands, EnqueuedCommands)
          /\ \A i \in 1..Len(wireOut) :
                wireOut[i].type = "SendOnChannel" =>
                  (wireOut[i].channel_id = chanId /\ chanId \in ChannelIds))
\* A command and then Disconnect were enqueued while the session was not
\* yet open (openAtDisconnect is false), and the session has since sent
\* the command in a SendOnChannel and then CloseChannel.
BacklogSentInOrder ==
    /\ DisconnectEnqueued /\ ~openAtDisconnect
    /\ exitReason = "Disconnect"
    /\ Len(enqueued) = 2
    /\ Len(SentCommands) = 1
    /\ SentCommands = EnqueuedCommands
    /\ wireOut[Len(wireOut)].type = "CloseChannel"

\* C25: once the input loop of run_repl has ended, run_repl eventually
\* returns with the display task stopped, whatever the connection task is
\* doing; and until then the shutdown signal can be sent, or taken by the
\* display task, or the display task can be joined.
ReplReturnsAfterInputLoop ==
    /\ (replPc = "shutdown") ~> (replPc = "done" /\ dispPc = "done" /\ replResult = "Ok")
    /\ [](replPc \in {"shutdown", "join"} =>
            ENABLED (ReplShutdown \/ DispShutdown \/ ReplJoin))
\* run_repl has returned while the connection task still waits for the
\* handshake reply.
ReturnedDuringHandshake ==
    /\ replPc = "done" /\ replResult = "Ok"
    /\ dispPc = "done"
    /\ sessPc = "hs_wait"
====
